---------------------------- MODULE Spec2Model ----------------------------
(***************************************************************************)
(* bsoncv.ToJson: the single-pass transcoder from a binary document to     *)
(* JSON text.  One call is modelled: the input slice is drawn in Init, one *)
(* action enters the function, one action runs one iteration of the loop   *)
(* for each case of the tag switch, one action leaves the loop.            *)
(* Bytes are the integers 0..255; text is a sequence of byte values.       *)
(***************************************************************************)
EXTENDS Integers, Sequences, FiniteSets, TLC

(***************************************************************************)
(* The type tags and the two boolean payload bytes (the const block).      *)
(***************************************************************************)
Float64 == 1
String == 2
Object == 3
Array == 4
ObjectId == 7
Boolean == 8
UnixTimeMillis == 9
Null == 10
Int32 == 16
Time == 17
Int64 == 18
Dec128 == 19
Terminal == 0
False == 0
True == 1

(***************************************************************************)
(* The bytes the function writes or compares against.                      *)
(***************************************************************************)
LBrace == 123
RBrace == 125
LBracket == 91
RBracket == 93
Quote == 34
Colon == 58
Comma == 44
Backslash == 92
Newline == 10
Tab == 9
CarriageReturn == 13
LetterN == 110
LetterT == 116
LetterR == 114

\* var stack [64]byte
StackCap == 64

(***************************************************************************)
(* Bounds of the inputs.                                                   *)
(***************************************************************************)
\* elements and terminal bytes after the header, shapes of every kind
MaxTokens == 4
\* the same for inputs that are then cut short or given trailing bytes
MaxDamagedTokens == 2
\* bytes cut from the end of an input
MaxCut == 3
\* containers opened one inside the other in the deep inputs
MaxNest == 65

\* elements and terminal bytes of a document the collection holds
MaxStoredTokens == 2

\* frames of one function the goroutine's stack has room for (the real stack
\* grows to a gigabyte; the count only has to be more than one)
MaxFrames == 3

\* pointers in front of a value of a field
MaxPointers == 2

(***************************************************************************)
(* Arithmetic and sequence helpers.                                        *)
(***************************************************************************)
RECURSIVE Pow(_, _)
Pow(b, e) == IF e = 0 THEN 1 ELSE b * Pow(b, e - 1)

Last(s) == s[Len(s)]

\* the sequences ss[lo], ..., ss[hi] joined (by halves, to stay shallow)
RECURSIVE FlattenRange(_, _, _)
FlattenRange(ss, lo, hi) ==
    IF lo > hi THEN <<>>
    ELSE IF lo = hi THEN ss[lo]
    ELSE LET mid == (lo + hi) \div 2
         IN  FlattenRange(ss, lo, mid) \o FlattenRange(ss, mid + 1, hi)

\* (the set constructor binds the sequence once, as a value)
Flatten(ss) == CHOOSE r \in {FlattenRange(v, 1, Len(v)) : v \in {ss}} : TRUE

\* ns[lo] + ... + ns[hi]
RECURSIVE SumRange(_, _, _)
SumRange(ns, lo, hi) ==
    IF lo > hi THEN 0
    ELSE IF lo = hi THEN ns[lo]
    ELSE LET mid == (lo + hi) \div 2
         IN  SumRange(ns, lo, mid) + SumRange(ns, mid + 1, hi)

\* n as w little-endian bytes (the wire format of lengths and integers)
LittleEndian(n, w) == [i \in 1..w |-> (n \div Pow(256, i - 1)) % 256]


(***************************************************************************)
(* The binary document.  A token is one element (tag, name, value) or the  *)
(* terminal byte; a document is the four length bytes, then its tokens.    *)
(* A value is the payload without its framing: the bytes of a string       *)
(* without the length prefix and the trailing null, the fixed-width bytes  *)
(* of the other scalar types, nothing for a container or a bare tag.       *)
(***************************************************************************)
Elem(tag, val) == [tag |-> tag, name |-> <<>>, val |-> val]

Close == [tag |-> Terminal, name |-> <<>>, val |-> <<>>]

\* the element names: a, a double quote, 0 and a backslash
Names == << <<97>>, <<34>>, <<48, 92>> >>

\* the scalar elements tried; the last five carry a tag the switch rejects
Samples ==
    << Elem(Float64, <<0, 0, 0, 0, 0, 0, 8, 64>>),            \* 3.0
       Elem(String, <<97>>),
       Elem(Int32, <<2, 1, 0, 0>>),                           \* 258
       Elem(Boolean, <<True>>),
       Elem(String, <<34, 92>>),
       Elem(Null, <<>>),
       Elem(Int64, <<2, 1, 0, 0, 0, 0, 0, 0>>),
       Elem(ObjectId, <<1, 35, 69, 103, 137, 171, 205, 239, 1, 35, 69, 103>>),
       Elem(String, <<34, 92, 10, 98, 9, 13>>),
       Elem(UnixTimeMillis, <<0, 0, 0, 0, 0, 0, 0, 0>>),
       Elem(Int32, <<255, 255, 255, 255>>),
       Elem(Boolean, <<False>>),
       Elem(String, <<>>),
       Elem(Float64, <<1, 0, 0, 0, 0, 0, 248, 127>>),         \* NaN
       Elem(Int64, <<255, 255, 255, 255, 255, 255, 255, 255>>),
       Elem(String, <<1, 44>>),
       Elem(Int32, <<0, 0, 0, 128>>),
       Elem(UnixTimeMillis, <<220, 5, 0, 0, 0, 0, 0, 0>>),    \* 1500 ms
       Elem(Float64, <<0, 0, 0, 0, 0, 0, 0, 192>>),           \* -2.0
       Elem(Boolean, <<2>>),
       Elem(UnixTimeMillis, <<247, 90, 208, 123, 99, 8, 0, 0>>),  \* 9223372036855 ms
       Elem(Time, <<>>),
       Elem(Dec128, <<>>),
       Elem(5, <<>>),
       Elem(255, <<>>),
       Elem(6, <<>>) >>

IsOpen(t) == t.tag \in {Object, Array}

IsClose(t) == t.tag = Terminal

Supported(t) ==
    t.tag \in {Float64, String, Object, Array, ObjectId, Boolean,
               UnixTimeMillis, Null, Int32, Int64, Terminal}

\* the samples every tag of which the switch decodes
Decodable == Len(SelectSeq(Samples, Supported))

\* the shapes: S a scalar element, O and A a container opened, C a terminal byte
Kinds == {"S", "O", "A", "C"}

\* open containers after the first k tokens of a shape, the document included
ShapeDepth(sh, k) ==
    1 + Cardinality({i \in 1..k : sh[i] \in {"O", "A"}})
      - Cardinality({i \in 1..k : sh[i] = "C"})

\* nothing follows the terminal byte of the document itself
PrefixValid(sh) == \A k \in 1..Len(sh) : ShapeDepth(sh, k - 1) >= 1

ShapesUpTo(n) ==
    {sh \in UNION {[1..m -> Kinds] : m \in 0..n} : PrefixValid(sh)}

\* the tokens of a shape: names and scalar samples rotate with the position
TokenAt(sh, k, seed, pool) ==
    LET nm == Names[((seed + 2 * k) % Len(Names)) + 1]
    IN  CASE sh[k] = "C" -> Close
          [] sh[k] = "O" -> [tag |-> Object, name |-> nm, val |-> <<>>]
          [] sh[k] = "A" -> [tag |-> Array, name |-> nm, val |-> <<>>]
          [] OTHER -> [Samples[((seed + k) % pool) + 1] EXCEPT !.name = nm]

TokensOf(sh, seed, pool) == [k \in 1..Len(sh) |-> TokenAt(sh, k, seed, pool)]

(***************************************************************************)
(* The wire form: tag byte, name, null, payload.  A container's payload is *)
(* the length of the embedded document, which runs to its terminal byte.   *)
(***************************************************************************)
\* open containers after the first k tokens, the document included
Depth(toks, k) ==
    1 + Cardinality({i \in 1..k : IsOpen(toks[i])})
      - Cardinality({i \in 1..k : IsClose(toks[i])})

\* the bytes of a token
TokenSize(t) ==
    CASE IsClose(t) -> 1
      [] IsOpen(t) -> 1 + Len(t.name) + 1 + 4
      [] t.tag = String -> 1 + Len(t.name) + 1 + 4 + Len(t.val) + 1
      [] OTHER -> 1 + Len(t.name) + 1 + Len(t.val)

\* What the tokens say about the document, worked out once per input:
\*   dep[k + 1]  open containers after the first k tokens
\*   off[k + 1]  the offset just past token k (past the header for k = 0)
\*   match[k]    for a container, the terminal byte that closes it (the last
\*               token when the input ends first); 0 for the other tokens
LayoutFrom(toks, sizes, dep) ==
    LET n == Len(toks)
    IN  [dep |-> dep,
         off |-> [k \in 1..(n + 1) |-> 4 + SumRange(sizes, 1, k - 1)],
         match |-> [k \in 1..n |->
                      IF ~IsOpen(toks[k]) THEN 0
                      ELSE IF \A j \in (k + 1)..n : dep[j + 1] >= dep[k + 1] THEN n
                      ELSE CHOOSE j \in (k + 1)..n :
                              /\ dep[j + 1] < dep[k + 1]
                              /\ \A i \in (k + 1)..(j - 1) : dep[i + 1] >= dep[k + 1]]]

\* (sizes and dep are bound once, as values, by the set constructor)
Layout(toks) ==
    CHOOSE lay \in
        {LayoutFrom(toks, sizes, dep) :
            sizes \in {[k \in 1..Len(toks) |-> TokenSize(toks[k])]},
            dep \in {[k \in 1..(Len(toks) + 1) |-> Depth(toks, k - 1)]}} : TRUE

\* the bytes of token k
Wire(toks, lay, k) ==
    LET t == toks[k]
    IN  CASE IsClose(t) -> <<Terminal>>
          [] IsOpen(t) ->
                <<t.tag>> \o t.name \o <<0>>
                \o LittleEndian(4 + lay.off[lay.match[k] + 1] - lay.off[k + 1], 4)
          [] t.tag = String ->
                <<t.tag>> \o t.name \o <<0>>
                \o LittleEndian(Len(t.val) + 1, 4) \o t.val \o <<0>>
          [] OTHER -> <<t.tag>> \o t.name \o <<0>> \o t.val

\* the document of the tokens, lay being their layout
Encode(toks, lay) ==
    LittleEndian(lay.off[Len(toks) + 1], 4)
    \o Flatten([k \in 1..Len(toks) |-> Wire(toks, lay, k)])

\* a document: every container closed, the last token closes the document,
\* every tag one the format defines and the switch decodes
WellFormed(toks) ==
    /\ Len(toks) >= 1
    /\ \A k \in 1..Len(toks) :
          /\ Supported(toks[k])
          /\ toks[k].tag = Boolean => toks[k].val[1] \in {False, True}
    /\ LET dep == [k \in 0..Len(toks) |-> Depth(toks, k)]
       IN  /\ \A k \in 1..Len(toks) : dep[k - 1] >= 1
           /\ dep[Len(toks)] = 0

(***************************************************************************)
(* Numbers wider than the checker's integers are kept as digit sequences,  *)
(* most significant digit first, in base 2 or 256.                         *)
(***************************************************************************)
Reverse(s) == [i \in 1..Len(s) |-> s[Len(s) + 1 - i]]

IsZero(ds) == \A i \in 1..Len(ds) : ds[i] = 0

\* ds (base b) divided by the small number d: quotient digits and remainder
RECURSIVE DivSmallFrom(_, _, _, _, _)
DivSmallFrom(ds, b, d, i, acc) ==
    IF i > Len(ds) THEN acc
    ELSE LET cur == acc.r * b + ds[i]
         IN  DivSmallFrom(ds, b, d, i + 1,
                          [q |-> Append(acc.q, cur \div d), r |-> cur % d])

DivSmall(ds, b, d) == DivSmallFrom(ds, b, d, 1, [q |-> <<>>, r |-> 0])

\* the decimal digits of ds (base b), as text
RECURSIVE DecimalFrom(_, _, _)
DecimalFrom(ds, b, acc) ==
    IF IsZero(ds) THEN acc
    ELSE LET qr == DivSmall(ds, b, 10)
         IN  DecimalFrom(qr.q, b, <<48 + qr.r>> \o acc)

Decimal(ds, b) == IF IsZero(ds) THEN <<48>> ELSE DecimalFrom(ds, b, <<>>)

\* strconv.FormatUint(binary.LittleEndian.UintNN(bytes), 10)
FormatUint(bytes) == Decimal(Reverse(bytes), 256)

\* hex.EncodeToString
HexDigit(n) == IF n < 10 THEN 48 + n ELSE 87 + n

EncodeToString(bytes) ==
    Flatten([i \in 1..Len(bytes) |->
                <<HexDigit(bytes[i] \div 16), HexDigit(bytes[i] % 16)>>])


\* the eight bits of a byte, most significant first
ByteBits(n) == [i \in 1..8 |-> (n \div Pow(2, 8 - i)) % 2]

\* the bits of a little-endian word, most significant first
WordBits(bytes) == Flatten([i \in 1..Len(bytes) |-> ByteBits(Reverse(bytes)[i])])

\* the value of at most 30 bits
RECURSIVE BitsValue(_)
BitsValue(bits) ==
    IF bits = <<>> THEN 0
    ELSE 2 * BitsValue(SubSeq(bits, 1, Len(bits) - 1)) + bits[Len(bits)]

(***************************************************************************)
(* strconv.FormatFloat(math.Float64frombits(bits), 'f', -1, 64) for the    *)
(* doubles whose shortest decimal is known without a digit search: NaN,    *)
(* the infinities, the zeros, and the integers of magnitude below 2^53     *)
(* (each is a double of its own, so no shorter decimal reads back to it).  *)
(***************************************************************************)
FormatFloat(bytes) ==
    LET bits == WordBits(bytes)
        neg == bits[1] = 1
        exp == BitsValue(SubSeq(bits, 2, 12))
        frac == SubSeq(bits, 13, 64)
        shift == 1075 - exp
        mant == <<1>> \o frac
        sign == IF neg THEN <<45>> ELSE <<>>
    IN  CASE exp = 2047 /\ ~IsZero(frac) -> <<78, 97, 78>>
          [] exp = 2047 /\ IsZero(frac) ->
                (IF neg THEN <<45>> ELSE <<43>>) \o <<73, 110, 102>>
          [] exp = 0 /\ IsZero(frac) -> sign \o <<48>>
          [] /\ exp >= 1023
             /\ exp <= 1075
             /\ IsZero(SubSeq(mant, 54 - shift, 53)) ->
                sign \o Decimal(SubSeq(mant, 1, 53 - shift), 2)


(***************************************************************************)
(* time.Unix(0, int64(ms) * 1000000).Format(time.RFC3339Nano), the zone    *)
(* taken to be UTC.  The product wraps at 64 bits, as Go's int64 does.     *)
(***************************************************************************)
\* little-endian bytes times the small number m, cut to the same width
RECURSIVE MulSmallFrom(_, _, _, _)
MulSmallFrom(bytes, m, i, acc) ==
    IF i > Len(bytes) THEN acc.out
    ELSE LET cur == bytes[i] * m + acc.carry
         IN  MulSmallFrom(bytes, m, i + 1,
                          [out |-> Append(acc.out, cur % 256),
                           carry |-> cur \div 256])

MulSmall(bytes, m) == MulSmallFrom(bytes, m, 1, [out |-> <<>>, carry |-> 0])

\* the value of a digit sequence that fits the checker's integers
RECURSIVE DigitsValue(_, _)
DigitsValue(ds, b) ==
    IF ds = <<>> THEN 0
    ELSE b * DigitsValue(SubSeq(ds, 1, Len(ds) - 1), b) + ds[Len(ds)]

\* n in decimal, at least w digits wide
RECURSIVE Pad(_, _)
Pad(n, w) ==
    IF w <= 1 /\ n < 10 THEN <<48 + n>>
    ELSE Pad(n \div 10, w - 1) \o <<48 + (n % 10)>>

RECURSIVE TrimZeros(_)
TrimZeros(ds) ==
    IF ds # <<>> /\ Last(ds) = 48 THEN TrimZeros(SubSeq(ds, 1, Len(ds) - 1))
    ELSE ds

\* the instant of a signed 64-bit count of nanoseconds since the epoch:
\* days since the epoch, second of the day, nanosecond of the second.
\* The count is read with 2^63 added (the top bit flipped), which is
\* 106751 days, 85636 s and 854775808 ns, and that much is taken off again.
UnixNano(nsbytes) ==
    LET u == Reverse([nsbytes EXCEPT ![8] = (@ + 128) % 256])
        d1 == DivSmall(u, 256, 1000)
        d2 == DivSmall(d1.q, 256, 1000)
        d3 == DivSmall(d2.q, 256, 1000)
        d4 == DivSmall(d3.q, 256, 100)
        d5 == DivSmall(d4.q, 256, 864)
        un == d3.r * 1000000 + d2.r * 1000 + d1.r
        us == d5.r * 100 + d4.r
        ud == DigitsValue(d5.q, 256)
        bn == IF un < 854775808 THEN 1 ELSE 0
        n == un - 854775808 + bn * 1000000000
        bs == IF us - bn < 85636 THEN 1 ELSE 0
        sec == us - bn - 85636 + bs * 86400
    IN  [day |-> ud - 106751 - bs, sec |-> sec, nsec |-> n]

\* the civil date of a day count since 1970-01-01
CivilDate(day) ==
    LET z == day + 719468
        era == z \div 146097
        doe == z - era * 146097
        yoe == (doe - doe \div 1460 + doe \div 36524 - doe \div 146096) \div 365
        doy == doe - (365 * yoe + yoe \div 4 - yoe \div 100)
        mp == (5 * doy + 2) \div 153
        m == IF mp < 10 THEN mp + 3 ELSE mp - 9
    IN  [year |-> yoe + era * 400 + (IF m <= 2 THEN 1 ELSE 0),
         month |-> m,
         dom |-> doy - (153 * mp + 2) \div 5 + 1]

FormatRFC3339Nano(t) ==
    LET c == CivilDate(t.day)
        frac == TrimZeros(Pad(t.nsec, 9))
    IN  Pad(c.year, 4) \o <<45>> \o Pad(c.month, 2) \o <<45>> \o Pad(c.dom, 2)
        \o <<84>> \o Pad(t.sec \div 3600, 2) \o <<58>>
        \o Pad((t.sec \div 60) % 60, 2) \o <<58>> \o Pad(t.sec % 60, 2)
        \o (IF frac = <<>> THEN <<>> ELSE <<46>> \o frac) \o <<90>>

FormatMillis(bytes) == FormatRFC3339Nano(UnixNano(MulSmall(bytes, 1000000)))


(***************************************************************************)
(* The state of one call of ToJson.                                        *)
(*   bsonbytes  the argument, up to its length                             *)
(*   spare      the bytes of its backing array from its length to its      *)
(*              capacity (a slice expression may reach them)               *)
(*   idx, jsonbytes, stack, stackptr   the locals of the function          *)
(*   pc         call, loop, return or panic; why says which return or      *)
(*              panic: empty, end, default; index, slice, stackindex,      *)
(*              value (the explicit panic(jsonbytes))                      *)
(* and, to state properties with:                                          *)
(*   tokens, damage   the document the argument was encoded from, and what *)
(*              was done to the bytes afterwards (none, cut, tail)         *)
(*   ref        the layout of that document (see Layout)                   *)
(*   steps      iterations of the loop completed                           *)
(*   mark       lengths of jsonbytes in the last iteration: at its start,  *)
(*              before the value was written, after the value was written  *)
(*   pushes, pops   frames pushed and popped                               *)
(*   overread   a byte at or past the length has been read                 *)
(***************************************************************************)
VARIABLES tokens, damage, ref, bsonbytes, spare, idx, jsonbytes, stack,
          stackptr, pc, why, steps, mark, pushes, pops, overread

(***************************************************************************)
(* The state of the package store around it (Collection, decoder, cursor). *)
(*   op       what the caller does: ToJson (calls the function itself),    *)
(*            FindOne, Find or Aggregate                                   *)
(*   driver   what the driver's call gave: its error (nil, ErrNoDocuments  *)
(*            or another one) and whether it gave a cursor; the document   *)
(*            of a single result is bsonbytes                              *)
(*   spc      where the caller is: start; decoder or cursor (it holds      *)
(*            one); DecodeBytes or Decode (inside that method, ToJson      *)
(*            running); Close (inside cursor.Close); done; panic; fatal    *)
(*            (the runtime ended the process: stack overflow)              *)
(*   ret      what the last call of the package returned                   *)
(*   frames   frames of cursor.Close on the goroutine's stack              *)
(*   closes   calls of the driver cursor's own Close                       *)
(***************************************************************************)
VARIABLES op, driver, spc, ret, frames, closes

wrapper == <<op, driver, spc, ret, frames, closes>>

(***************************************************************************)
(* The state of a call of StructToMap.                                     *)
(*   value   the argument v as reflection shows it: a struct value (its    *)
(*           fields in order), or nil                                      *)
(*   data, err   what the call returned, once it has (mpc = return)        *)
(*   mpc     call, return or panic                                         *)
(***************************************************************************)
VARIABLES value, data, err, mpc

mapper == <<value, data, err, mpc>>

\* what ToJson has no access to
rest == <<wrapper, mapper>>

vars == <<tokens, damage, ref, bsonbytes, spare, idx, jsonbytes, stack,
          stackptr, pc, why, steps, mark, pushes, pops, overread, rest>>

input == <<tokens, damage, ref, bsonbytes, spare>>

locals == <<idx, jsonbytes, stack, stackptr, pc, why, steps, mark, pushes,
            pops, overread>>

(***************************************************************************)
(* The inputs.                                                             *)
(***************************************************************************)
\* d containers one inside the other: all documents, or arrays and documents
\* in turn; with fill 1 a scalar in the innermost, with fill 2 also one after
\* each container closed
DeepShape(d, first, fill) ==
    [k \in 1..d |-> IF first = "A" /\ k % 2 = 1 THEN "A" ELSE "O"]
    \o (IF fill >= 1 THEN <<"S">> ELSE <<>>)
    \o Flatten([k \in 1..d |-> IF fill = 2 THEN <<"C", "S">> ELSE <<"C">>])
    \o <<"C">>

\* the bytes of an input cut short: what is left, and what was cut
CutAt(bytes, c) ==
    [kept |-> SubSeq(bytes, 1, Len(bytes) - c),
     cut |-> SubSeq(bytes, Len(bytes) - c + 1, Len(bytes))]

\* bytes found after the end of a document: a terminal byte, a null element
Tails == {<<Terminal>>, <<Null, 97, 0>>}

\* the document of a shape
Drawn(sh, seed, pool) ==
    /\ tokens = TokensOf(sh, seed, pool)
    /\ ref = Layout(tokens)

InitShapes ==
    \E sh \in ShapesUpTo(MaxTokens), seed \in 0..(Len(Samples) - 1) :
        /\ Drawn(sh, seed, Len(Samples))
        /\ damage = "none"
        /\ bsonbytes = Encode(tokens, ref)
        /\ spare = <<>>

\* the depths tried: the first few, every eighth, and those around the
\* capacity of the stack
DeepDepths == {d \in 0..MaxNest : d <= 3 \/ d % 8 = 0 \/ d >= StackCap - 2}

InitDeep ==
    \E d \in DeepDepths, first \in {"O", "A"}, fill \in 0..2 :
        \E sh \in {DeepShape(d, first, fill)} :
            /\ Drawn(sh, d, Decodable)
            /\ damage = "none"
            /\ bsonbytes = Encode(tokens, ref)
            /\ spare = <<>>

InitCut ==
    \E sh \in ShapesUpTo(MaxDamagedTokens), seed \in 0..(Len(Samples) - 1) :
        /\ Drawn(sh, seed, Len(Samples))
        /\ damage = "cut"
        /\ \E bytes \in {Encode(tokens, ref)} :
              \E c \in 1..MaxCut \cup {Len(bytes)}, tight \in BOOLEAN :
                  /\ c <= Len(bytes)
                  /\ bsonbytes = CutAt(bytes, c).kept
                  /\ spare = IF tight THEN <<>> ELSE CutAt(bytes, c).cut

InitTail ==
    \E sh \in ShapesUpTo(MaxDamagedTokens), seed \in 0..(Len(Samples) - 1),
       tail \in Tails :
        /\ Drawn(sh, seed, Len(Samples))
        /\ damage = "tail"
        /\ bsonbytes = Encode(tokens, ref) \o tail
        /\ spare = <<>>

\* the locals of ToJson before it is called
Locals ==
    /\ idx = 0
    /\ jsonbytes = <<>>
    /\ stack = [i \in 0..(StackCap - 1) |-> 0]
    /\ stackptr = 0
    /\ pc = "call"
    /\ why = ""
    /\ steps = 0
    /\ mark = [seg |-> 0, val |-> 0, end |-> 0]
    /\ pushes = 0
    /\ pops = 0
    /\ overread = FALSE

\* errors: nil, or a cause with what the package github.com/pkg/errors put
\* around it (a stack trace, and a message if any)
Nil == [cause |-> "nil", msg |-> "", stack |-> FALSE]

WithStack(cause) == [cause |-> cause, msg |-> "", stack |-> TRUE]

Wrap(cause, msg) == [cause |-> cause, msg |-> msg, stack |-> TRUE]

\* the errors of the driver tried: none, no document in the result, another
DriverErrors == {"nil", "ErrNoDocuments", "ErrClientDisconnected"}

NoReturn == [kind |-> "none", data |-> <<>>, err |-> Nil]

\* the caller calls ToJson itself
InitToJson ==
    /\ InitShapes \/ InitDeep \/ InitCut \/ InitTail
    /\ op = "ToJson"
    /\ driver = [err |-> "nil", cur |-> FALSE]

\* the documents of the collection are whole: every container closed
StoredShapes ==
    {sh \in ShapesUpTo(MaxStoredTokens) :
        Len(sh) >= 1 /\ ShapeDepth(sh, Len(sh)) = 0}

\* the caller queries for one document: the driver's result holds a document
\* of the collection, or an error and no document
InitFindOne ==
    /\ op = "FindOne"
    /\ \E e \in DriverErrors :
          /\ driver = [err |-> e, cur |-> FALSE]
          /\ damage = "none"
          /\ spare = <<>>
          /\ IF e = "nil"
             THEN \E sh \in StoredShapes, seed \in 0..(Len(Samples) - 1) :
                      /\ Drawn(sh, seed, Len(Samples))
                      /\ bsonbytes = Encode(tokens, ref)
             ELSE /\ Drawn(<<>>, 0, Len(Samples))
                  /\ bsonbytes = <<>>

\* the caller queries for many: the driver gives a cursor, an error, or both
InitFind ==
    /\ op \in {"Find", "Aggregate"}
    /\ \E e \in DriverErrors \ {"ErrNoDocuments"}, c \in BOOLEAN :
          driver = [err |-> e, cur |-> c]
    /\ damage = "none"
    /\ spare = <<>>
    /\ Drawn(<<>>, 0, Len(Samples))
    /\ bsonbytes = <<>>

(***************************************************************************)
(* Reading the argument.  An index expression is checked against the       *)
(* length, a slice expression against the capacity.                        *)
(***************************************************************************)
InputLen == Len(bsonbytes)

At(i) == bsonbytes[i + 1]

Backing == bsonbytes \o spare

SliceOK(lo, hi) == lo <= hi /\ hi <= Len(Backing)

Slice(lo, hi) == SubSeq(Backing, lo + 1, hi)

\* for bsonbytes[end] != Terminal { end++ }: where it stops, or -1 when it
\* runs off the end of the slice
NameEnd(from) ==
    IF \E e \in from..(InputLen - 1) : At(e) = Terminal
    THEN CHOOSE e \in from..(InputLen - 1) :
            /\ At(e) = Terminal
            /\ \A i \in from..(e - 1) : At(i) # Terminal
    ELSE -1

\* the length prefix of a string; every input here is shorter than 65536
\* bytes, so all longer lengths run off its end alike
Uint32Length(bytes) ==
    IF bytes[3] > 0 \/ bytes[4] > 0 THEN 65536 ELSE bytes[1] + 256 * bytes[2]

\* the switch with the carriage return written as a newline's escape: what
\* C9 has to tell from EscapeByte
EscapeByteReturnAsNewline(b) ==
    CASE b = Quote -> <<Backslash, Quote>>
      [] b = Newline -> <<Backslash, LetterN>>
      [] b = Tab -> <<Backslash, LetterT>>
      [] b = Backslash -> <<Backslash, Backslash>>
      [] b = CarriageReturn -> <<Backslash, LetterN>>
      [] OTHER -> <<b>>

\* the switch inside the string loop
EscapeByte(b) ==
    CASE b = Quote -> <<Backslash, Quote>>
      [] b = Newline -> <<Backslash, LetterN>>
      [] b = Tab -> <<Backslash, LetterT>>
      [] b = Backslash -> <<Backslash, Backslash>>
      [] b = CarriageReturn -> <<Backslash, LetterR>>
      [] OTHER -> <<b>>

EscapeAll(bytes) == Flatten([i \in 1..Len(bytes) |-> EscapeByte(bytes[i])])


(***************************************************************************)
(* The payload of a scalar element at offset at: the text written for it,  *)
(* the offset after it, whether a byte past the length was read, and the   *)
(* run-time panic that ends the read, if any (out is then what was written *)
(* before it).                                                             *)
(***************************************************************************)
Fixed(at, width, text) ==
    IF SliceOK(at, at + width)
    THEN [fault |-> "", out |-> text, idx |-> at + width,
          over |-> at + width > InputLen]
    ELSE [fault |-> "slice", out |-> <<>>, idx |-> at, over |-> FALSE]

StringPayload(at) ==
    IF ~SliceOK(at, at + 4)
    THEN [fault |-> "slice", out |-> <<>>, idx |-> at, over |-> FALSE]
    ELSE LET length == Uint32Length(Slice(at, at + 4))
             from == at + 4
             to == from + length - 1
             over == from > InputLen
         IN  IF to <= from
             THEN [fault |-> "", out |-> <<Quote, Quote>>, idx |-> from + length,
                   over |-> over]
             ELSE IF to <= InputLen
             THEN [fault |-> "",
                   out |-> <<Quote>> \o EscapeAll(SubSeq(bsonbytes, from + 1, to))
                           \o <<Quote>>,
                   idx |-> from + length, over |-> over]
             ELSE [fault |-> "index",
                   out |-> <<Quote>>
                           \o EscapeAll(SubSeq(bsonbytes, from + 1, InputLen)),
                   idx |-> from, over |-> over]

BooleanPayload(at) ==
    IF at < InputLen
    THEN [fault |-> "",
          out |-> IF At(at) = True THEN <<116, 114, 117, 101>>
                  ELSE <<102, 97, 108, 115, 101>>,
          idx |-> at + 1, over |-> FALSE]
    ELSE [fault |-> "index", out |-> <<>>, idx |-> at, over |-> FALSE]

Payload(tag, at) ==
    CASE tag = Float64 -> Fixed(at, 8, FormatFloat(Slice(at, at + 8)))
      [] tag = String -> StringPayload(at)
      [] tag = ObjectId ->
            Fixed(at, 12,
                  <<Quote>> \o EncodeToString(Slice(at, at + 12)) \o <<Quote>>)
      [] tag = Boolean -> BooleanPayload(at)
      [] tag = UnixTimeMillis ->
            Fixed(at, 8, <<Quote>> \o FormatMillis(Slice(at, at + 8)) \o <<Quote>>)
      [] tag = Null ->
            [fault |-> "", out |-> <<110, 117, 108, 108>>, idx |-> at,
             over |-> FALSE]
      [] tag = Int32 -> Fixed(at, 4, FormatUint(Slice(at, at + 4)))
      [] tag = Int64 -> Fixed(at, 8, FormatUint(Slice(at, at + 8)))

(***************************************************************************)
(* The parts every case of the switch shares.                              *)
(***************************************************************************)
\* the name part decided by the outermost frame and not by the top one: what
\* C8 has to tell from NamePart
NamePartOfOutermostFrame(end) ==
    IF stack[0] = RBrace
    THEN <<Quote>> \o SubSeq(bsonbytes, idx + 2, end) \o <<Quote, Colon>>
    ELSE <<>>

\* the field name and the colon, written inside a document and not inside
\* an array: if stack[stackptr] == '}' { ... }
NamePart(end) ==
    IF stack[stackptr] = RBrace
    THEN <<Quote>> \o SubSeq(bsonbytes, idx + 2, end) \o <<Quote, Colon>>
    ELSE <<>>

\* the comma rule without its test of the last character written: what C7
\* has to tell from WithComma
WithCommaAfterOpener(out, at) ==
    IF at < InputLen /\ At(at) # Terminal THEN out \o <<Comma>> ELSE out

\* "Add commas in the right spots", after the switch
WithComma(out, at) ==
    IF /\ at < InputLen
       /\ At(at) # Terminal
       /\ Last(out) # LBrace
       /\ Last(out) # LBracket
    THEN out \o <<Comma>>
    ELSE out

\* the function panics: nothing is returned; the locals stay as they were
Panics(reason, out, at, sp) ==
    /\ pc' = "panic"
    /\ why' = reason
    /\ jsonbytes' = out
    /\ idx' = at
    /\ stackptr' = sp
    /\ UNCHANGED <<input, rest, stack, steps, mark, pushes, pops, overread>>

\* an iteration runs to its end: the comma rule, then the loop test again
Continues(out, valueAt, at, over) ==
    /\ pc' = "loop"
    /\ why' = ""
    /\ jsonbytes' = WithComma(out, at)
    /\ idx' = at
    /\ steps' = steps + 1
    /\ mark' = [seg |-> Len(jsonbytes), val |-> valueAt, end |-> Len(out)]
    /\ overread' = (overread \/ over)
    /\ UNCHANGED <<input, rest>>

(***************************************************************************)
(* The function.                                                           *)
(***************************************************************************)
\* ToJson is called: by the caller itself, or inside a method of the decoder
Called == op = "ToJson" \/ spc \in {"DecodeBytes", "Decode"}

\* from the call to the first test of the loop
Enter ==
    /\ pc = "call"
    /\ Called
    /\ IF InputLen = 0
       THEN /\ pc' = "return"
            /\ why' = "empty"
            /\ jsonbytes' = bsonbytes
            /\ UNCHANGED <<idx, stack>>
       ELSE /\ pc' = "loop"
            /\ why' = ""
            /\ jsonbytes' = <<LBrace>>
            /\ idx' = 4
            /\ stack' = [stack EXCEPT ![0] = RBrace]
    /\ stackptr' = 0
    /\ UNCHANGED <<input, rest, steps, mark, pushes, pops, overread>>

\* for idx < len(bsonbytes) { switch bsonbytes[idx] { case tag:
Dispatch(tag) == pc = "loop" /\ idx < InputLen /\ At(idx) = tag

\* a scalar case of the switch
Scalar(tag) ==
    LET end == NameEnd(idx + 1)
    IN     IF end = -1 THEN Panics("index", jsonbytes, idx + 1, stackptr)
           ELSE IF stackptr < 0 THEN Panics("stackindex", jsonbytes, idx + 1, stackptr)
           ELSE LET named == jsonbytes \o NamePart(end)
                    p == Payload(tag, end + 1)
                IN  IF p.fault # ""
                    THEN Panics(p.fault, named \o p.out, p.idx, stackptr)
                    ELSE /\ Continues(named \o p.out, Len(named), p.idx, p.over)
                         /\ UNCHANGED <<stack, stackptr, pushes, pops>>

CaseFloat64 == Dispatch(Float64) /\ Scalar(Float64)

CaseString == Dispatch(String) /\ Scalar(String)

CaseObjectId == Dispatch(ObjectId) /\ Scalar(ObjectId)

CaseBoolean == Dispatch(Boolean) /\ Scalar(Boolean)

CaseUnixTimeMillis == Dispatch(UnixTimeMillis) /\ Scalar(UnixTimeMillis)

CaseNull == Dispatch(Null) /\ Scalar(Null)

CaseInt32 == Dispatch(Int32) /\ Scalar(Int32)

CaseInt64 == Dispatch(Int64) /\ Scalar(Int64)

\* case Object, case Array: the opening delimiter, then the frame pushed
Container(opener, closer) ==
    LET end == NameEnd(idx + 1)
    IN     IF end = -1 THEN Panics("index", jsonbytes, idx + 1, stackptr)
           ELSE IF stackptr < 0 THEN Panics("stackindex", jsonbytes, idx + 1, stackptr)
           ELSE LET named == jsonbytes \o NamePart(end)
                    out == named \o <<opener>>
                IN  IF stackptr + 1 >= StackCap
                    THEN Panics("stackindex", out, end + 1, stackptr + 1)
                    ELSE /\ Continues(out, Len(named), end + 1 + 4, FALSE)
                         /\ stack' = [stack EXCEPT ![stackptr + 1] = closer]
                         /\ stackptr' = stackptr + 1
                         /\ pushes' = pushes + 1
                         /\ UNCHANGED pops

CaseObject == Dispatch(Object) /\ Container(LBrace, RBrace)

\* (a variant: the array's frame is pushed with the document's delimiter)
CaseArrayPushesBrace == Dispatch(Array) /\ Container(LBracket, RBrace)

CaseArray == Dispatch(Array) /\ Container(LBracket, RBracket)

\* case Time, case Dec128: panic(jsonbytes)
CaseTime == Dispatch(Time) /\ Panics("value", jsonbytes, idx, stackptr)

CaseDec128 == Dispatch(Dec128) /\ Panics("value", jsonbytes, idx, stackptr)

\* case Terminal: the frame's delimiter, then the frame popped
\* the terminal byte with the frame written and left on the stack: what C12
\* has to tell from CaseTerminal
CaseTerminalKeepsFrame ==
    /\ Dispatch(Terminal)
    /\ IF stackptr < 0 THEN Panics("stackindex", jsonbytes, idx + 1, stackptr)
       ELSE /\ Continues(jsonbytes \o <<stack[stackptr]>>, Len(jsonbytes),
                         idx + 1, FALSE)
            /\ UNCHANGED <<stack, stackptr, pushes, pops>>

CaseTerminal ==
    /\ Dispatch(Terminal)
    /\ IF stackptr < 0 THEN Panics("stackindex", jsonbytes, idx + 1, stackptr)
       ELSE /\ Continues(jsonbytes \o <<stack[stackptr]>>, Len(jsonbytes),
                         idx + 1, FALSE)
            /\ stack' = [stack EXCEPT ![stackptr] = Terminal]
            /\ stackptr' = stackptr - 1
            /\ pops' = pops + 1
            /\ UNCHANGED pushes

\* default: the byte is printed and what was written so far is returned
CaseDefault ==
    /\ pc = "loop"
    /\ idx < InputLen
    /\ At(idx) \notin {Float64, String, Object, Array, ObjectId, Boolean,
                       UnixTimeMillis, Null, Int32, Time, Int64, Dec128, Terminal}
    /\ pc' = "return"
    /\ why' = "default"
    /\ UNCHANGED <<input, rest, idx, jsonbytes, stack, stackptr, steps, mark,
                   pushes, pops, overread>>

\* the loop test fails: return jsonbytes
LoopExit ==
    /\ pc = "loop"
    /\ idx >= InputLen
    /\ pc' = "return"
    /\ why' = "end"
    /\ UNCHANGED <<input, rest, idx, jsonbytes, stack, stackptr, steps, mark,
                   pushes, pops, overread>>

(***************************************************************************)
(* The package store.  The driver is outside the repository: of its        *)
(* SingleResult it is used that Err and DecodeBytes give the error of the  *)
(* query if there is one (ErrNoDocuments when nothing matched) and the     *)
(* document otherwise.                                                     *)
(***************************************************************************)
\* mongodb.SingleResult.DecodeBytes()
SingleResultErr == driver.err

\* Collection.FindOne
FindOne ==
    /\ op = "FindOne"
    /\ spc = "start"
    /\ spc' = "decoder"
    /\ ret' = [kind |-> "decoder", data |-> <<>>,
               err |-> IF SingleResultErr = "nil" \/ SingleResultErr = "ErrNoDocuments"
                       THEN Nil
                       ELSE WithStack(SingleResultErr)]
    /\ UNCHANGED <<input, locals, mapper, op, driver, frames, closes>>

\* a method of the decoder up to its call of ToJson, or to its return of the
\* error of the single result with msg put around it
DecoderMethod(method, msg) ==
    /\ IF SingleResultErr # "nil"
       THEN /\ spc' = "done"
            /\ ret' = [kind |-> method, data |-> <<>>,
                       err |-> Wrap(SingleResultErr, msg)]
       ELSE /\ spc' = method
            /\ UNCHANGED ret
    /\ UNCHANGED <<input, locals, mapper, op, driver, frames, closes>>

\* decoder.DecodeBytes, to the call of ToJson
DecodeBytes ==
    /\ spc = "decoder"
    /\ DecoderMethod("DecodeBytes", "failed to decode bytes")

\* decoder.Decode, to the call of ToJson
Decode ==
    /\ spc = "decoder"
    /\ DecoderMethod("Decode", "failed to decode")

\* return bsoncv.ToJson(data), nil
DecodeBytesReturns ==
    /\ spc = "DecodeBytes"
    /\ pc = "return"
    /\ spc' = "done"
    /\ ret' = [kind |-> "DecodeBytes", data |-> jsonbytes, err |-> Nil]
    /\ UNCHANGED <<input, locals, mapper, op, driver, frames, closes>>

\* return json.Unmarshal(bsoncv.ToJson(data), val): the error depends on the
\* text and on the type of val, which the caller chooses
DecodeReturns ==
    /\ spc = "Decode"
    /\ pc = "return"
    /\ spc' = "done"
    /\ \E e \in {"nil", "UnmarshalError"} :
          ret' = [kind |-> "Decode", data |-> <<>>,
                  err |-> [cause |-> e, msg |-> "", stack |-> FALSE]]
    /\ UNCHANGED <<input, locals, mapper, op, driver, frames, closes>>

\* a panic of ToJson goes through the method that called it
DecoderPanics ==
    /\ spc \in {"DecodeBytes", "Decode"}
    /\ pc = "panic"
    /\ spc' = "panic"
    /\ UNCHANGED <<input, locals, mapper, op, driver, ret, frames, closes>>

\* Collection.Find and Collection.Aggregate
FindMany ==
    /\ spc = "start"
    /\ spc' = IF driver.cur THEN "cursor" ELSE "done"
    /\ ret' = [kind |-> IF driver.cur THEN "cursor" ELSE "nil", data |-> <<>>,
               err |-> IF driver.err # "nil" THEN WithStack(driver.err) ELSE Nil]
    /\ UNCHANGED <<input, locals, mapper, op, driver, frames, closes>>

Find == op = "Find" /\ FindMany

Aggregate == op = "Aggregate" /\ FindMany

\* the body of cursor.Close: return m.Close(ctx), where m is the *cursor and
\* Close its own method; the call needs a new frame
CursorCloseBody ==
    /\ spc = "Close"
    /\ IF frames < MaxFrames
       THEN /\ frames' = frames + 1
            /\ UNCHANGED spc
       ELSE /\ spc' = "fatal"
            /\ UNCHANGED frames
    /\ UNCHANGED <<input, locals, mapper, op, driver, ret, closes>>

\* the caller calls Close on the Cursor it was given
CursorClose ==
    /\ spc = "cursor"
    /\ spc' = "Close"
    /\ frames' = 1
    /\ UNCHANGED <<input, locals, mapper, op, driver, ret, closes>>

(***************************************************************************)
(* JSON, as a standard parser reads it (RFC 8259), one byte at a time.     *)
(*   expect   value, first (after {: a key or }), afirst (after [: a value *)
(*            or ]), key (after a comma in an object), colon, next (after  *)
(*            a value: a comma or a closing delimiter), done               *)
(*   lex      none, str, esc, u4..u1 (inside a string), lit (inside a      *)
(*            number, true, false or null)                                 *)
(*   stack    the opening delimiters of the containers open                *)
(*   buf      the string (unescaped) or literal being read                 *)
(*   events   what has been read: key (with its name), open and close      *)
(*            (with the delimiter), value                                  *)
(* Bytes from 128 on are taken as they come (UTF-8 is not checked).        *)
(***************************************************************************)
Event(e, v) == [e |-> e, v |-> v]

JsonStart ==
    [ok |-> TRUE, expect |-> "value", lex |-> "none", stack |-> <<>>,
     buf |-> <<>>, key |-> FALSE, events |-> <<>>]

JsonFail(q) == [q EXCEPT !.ok = FALSE]

AfterValue(st) == IF st = <<>> THEN "done" ELSE "next"

Digits == 48..57

HexDigits == Digits \cup 65..70 \cup 97..102

Whitespace == {32, 9, 10, 13}

\* the number grammar: -? (0 | [1-9][0-9]*) (. [0-9]+)? ([eE] [+-]? [0-9]+)?
NumberStep(st, c) ==
    CASE st = "start" /\ c = 45 -> "minus"
      [] st \in {"start", "minus"} /\ c = 48 -> "zero"
      [] st \in {"start", "minus"} /\ c \in 49..57 -> "int"
      [] st = "int" /\ c \in Digits -> "int"
      [] st \in {"zero", "int"} /\ c = 46 -> "dot"
      [] st \in {"dot", "frac"} /\ c \in Digits -> "frac"
      [] st \in {"zero", "int", "frac"} /\ c \in {69, 101} -> "e"
      [] st = "e" /\ c \in {43, 45} -> "esign"
      [] st \in {"e", "esign", "exp"} /\ c \in Digits -> "exp"
      [] OTHER -> "bad"

RECURSIVE NumberRun(_, _, _)
NumberRun(buf, st, i) ==
    IF i > Len(buf) THEN st ELSE NumberRun(buf, NumberStep(st, buf[i]), i + 1)

ValidLiteral(buf) ==
    \/ buf \in {<<116, 114, 117, 101>>, <<102, 97, 108, 115, 101>>,
                <<110, 117, 108, 108>>}
    \/ /\ Len(buf) <= 40
       /\ NumberRun(buf, "start", 1) \in {"zero", "int", "frac", "exp"}

\* the byte an escape stands for
Unescaped(c) ==
    CASE c = 110 -> 10 [] c = 116 -> 9 [] c = 114 -> 13 [] c = 98 -> 8
      [] c = 102 -> 12 [] OTHER -> c

JsonEndString(q) ==
    IF q.key
    THEN [q EXCEPT !.lex = "none", !.buf = <<>>, !.expect = "colon",
                   !.events = Append(@, Event("key", q.buf))]
    ELSE [q EXCEPT !.lex = "none", !.buf = <<>>, !.expect = AfterValue(q.stack),
                   !.events = Append(@, Event("value", <<>>))]

JsonEndLiteral(q) ==
    IF ValidLiteral(q.buf)
    THEN [q EXCEPT !.lex = "none", !.buf = <<>>, !.expect = AfterValue(q.stack),
                   !.events = Append(@, Event("value", <<>>))]
    ELSE JsonFail(q)

\* a byte between tokens
JsonBetween(q, c) ==
    CASE ~q.ok -> q
      [] c \in Whitespace -> q
      [] c \in {LBrace, LBracket} /\ q.expect \in {"value", "afirst"} ->
            [q EXCEPT !.stack = Append(@, c),
                      !.expect = IF c = LBrace THEN "first" ELSE "afirst",
                      !.events = Append(@, Event("open", <<c>>))]
      [] /\ c = RBrace
         /\ q.expect \in {"first", "next"}
         /\ q.stack # <<>>
         /\ Last(q.stack) = LBrace ->
            [q EXCEPT !.stack = SubSeq(@, 1, Len(@) - 1),
                      !.expect = AfterValue(SubSeq(q.stack, 1, Len(q.stack) - 1)),
                      !.events = Append(@, Event("close", <<c>>))]
      [] /\ c = RBracket
         /\ q.expect \in {"afirst", "next"}
         /\ q.stack # <<>>
         /\ Last(q.stack) = LBracket ->
            [q EXCEPT !.stack = SubSeq(@, 1, Len(@) - 1),
                      !.expect = AfterValue(SubSeq(q.stack, 1, Len(q.stack) - 1)),
                      !.events = Append(@, Event("close", <<c>>))]
      [] c = Comma /\ q.expect = "next" ->
            [q EXCEPT !.expect = IF Last(q.stack) = LBrace THEN "key" ELSE "value"]
      [] c = Colon /\ q.expect = "colon" -> [q EXCEPT !.expect = "value"]
      [] c = Quote /\ q.expect \in {"first", "key", "value", "afirst"} ->
            [q EXCEPT !.lex = "str", !.buf = <<>>,
                      !.key = (q.expect \in {"first", "key"})]
      [] /\ c \notin {LBrace, RBrace, LBracket, RBracket, Comma, Colon, Quote}
         /\ q.expect \in {"value", "afirst"} ->
            [q EXCEPT !.lex = "lit", !.buf = <<c>>]
      [] OTHER -> JsonFail(q)

JsonStep(q, c) ==
    CASE ~q.ok -> q
      [] q.lex = "str" /\ c = Quote -> JsonEndString(q)
      [] q.lex = "str" /\ c = Backslash -> [q EXCEPT !.lex = "esc"]
      [] q.lex = "str" /\ c >= 32 /\ c \notin {Quote, Backslash} ->
            [q EXCEPT !.buf = Append(@, c)]
      [] q.lex = "esc" /\ c \in {Quote, Backslash, 47, 98, 102, 110, 114, 116} ->
            [q EXCEPT !.lex = "str", !.buf = Append(@, Unescaped(c))]
      [] q.lex = "esc" /\ c = 117 -> [q EXCEPT !.lex = "u4"]
      [] q.lex = "u4" /\ c \in HexDigits -> [q EXCEPT !.lex = "u3"]
      [] q.lex = "u3" /\ c \in HexDigits -> [q EXCEPT !.lex = "u2"]
      [] q.lex = "u2" /\ c \in HexDigits -> [q EXCEPT !.lex = "u1"]
      [] q.lex = "u1" /\ c \in HexDigits ->
            [q EXCEPT !.lex = "str", !.buf = Append(@, 63)]
      [] /\ q.lex = "lit"
         /\ c \notin {LBrace, RBrace, LBracket, RBracket, Comma, Colon, Quote}
         /\ c \notin Whitespace -> [q EXCEPT !.buf = Append(@, c)]
      [] q.lex = "lit" -> JsonBetween(JsonEndLiteral(q), c)
      [] q.lex = "none" -> JsonBetween(q, c)
      [] OTHER -> JsonFail(q)

\* the bytes text[lo..hi] read from state q (by halves, to stay shallow; the
\* set constructor binds the state in the middle once)
RECURSIVE JsonRun(_, _, _, _)
JsonRun(text, q, lo, hi) ==
    IF lo > hi THEN q
    ELSE IF lo = hi THEN JsonStep(q, text[lo])
    ELSE LET mid == (lo + hi) \div 2
         IN  CHOOSE r \in {JsonRun(text, m, mid + 1, hi) :
                              m \in {JsonRun(text, q, lo, mid)}} : TRUE

JsonRead(text) ==
    LET q == JsonRun(text, JsonStart, 1, Len(text))
    IN  IF q.ok /\ q.lex = "lit" THEN JsonEndLiteral(q) ELSE q

\* the text is one JSON value
ValidJson(q) == q.ok /\ q.lex = "none" /\ q.expect = "done"

(***************************************************************************)
(* StructToMap (bsontags.go).  A string is the sequence of its bytes.  A   *)
(* struct field is what reflection shows of it: its Name, the values of    *)
(* its tags under the keys json, bson and bsoncv (empty when the key is    *)
(* absent, as Tag.Get gives them), and its Value.                          *)
(***************************************************************************)
Dash == 45

\* what strings.TrimSpace takes off (the ASCII part of it)
GoSpace == {9, 10, 11, 12, 13, 32}

\* strings.Split(str, ","): the parts between the separators
Split(str, sep) ==
    LET at == {i \in 1..Len(str) : str[i] = sep}
        nth(k) == IF k = 0 THEN 0
                  ELSE IF k > Cardinality(at) THEN Len(str) + 1
                  ELSE CHOOSE i \in at : Cardinality({j \in at : j < i}) = k - 1
    IN  [k \in 1..(Cardinality(at) + 1) |-> SubSeq(str, nth(k - 1) + 1, nth(k) - 1)]

\* strings.TrimSpace(str)
TrimSpace(str) ==
    LET black == {i \in 1..Len(str) : str[i] \notin GoSpace}
    IN  IF black = {} THEN <<>>
        ELSE SubSeq(str, CHOOSE i \in black : \A j \in black : i <= j,
                         CHOOSE i \in black : \A j \in black : i >= j)

\* type convType
invalid == 0
oid == 1
date == 2
json == 3

convTypeNames == <<<<>>, <<36, 111, 105, 100>>, <<36, 100, 97, 116, 101>>, <<36, 106, 115, 111, 110>>>>  \* "", "$oid", "$date", "$json"

parseConvType(t) ==
    IF \E i \in 1..Len(convTypeNames) : convTypeNames[i] = t
    THEN (CHOOSE i \in 1..Len(convTypeNames) : convTypeNames[i] = t) - 1
    ELSE invalid

RFC3339Milli == <<50, 48, 48, 54, 45, 48, 49, 45, 48, 50, 84, 49, 53, 58, 48, 52, 58, 48, 53, 46, 48, 48, 48, 90, 48, 55, 58, 48, 48>>  \* "2006-01-02T15:04:05.000Z07:00"

\* the table timeFormats, one of its entries:
\* "RFC3339": time.RFC3339 = "2006-01-02T15:04:05Z07:00"
timeFormats ==
    {[name |-> <<82, 70, 67, 51, 51, 51, 57>>, layout |-> <<50, 48, 48, 54, 45, 48, 49, 45, 48, 50, 84, 49, 53, 58, 48, 52, 58, 48, 53, 90, 48, 55, 58, 48, 48>>]}

\* f, ok := timeFormats[name]; if !ok the name itself
LayoutOf(name) ==
    IF \E t \in timeFormats : t.name = name
    THEN (CHOOSE t \in timeFormats : t.name = name).layout
    ELSE name

parseBsonConvTag(tag) ==
    LET parts == Split(tag, Comma)
        conv == IF Len(parts) > 1 THEN parseConvType(parts[2]) ELSE invalid
    IN  [conv |-> conv,
         omitempty |-> Len(parts) > 2 /\ parts[3] # <<>>,
         datefmt |-> IF Len(parts) > 3 /\ conv = date THEN LayoutOf(parts[4])
                     ELSE <<>>]

\* one round of the loop of fieldName with the key flipped: the json name
\* is the one that may be "-" and the others are not
NameAfterDashFlipped(f, name, key) ==
    LET n == TrimSpace(Split(f.Tag[key], Comma)[1])
    IN  IF f.Tag[key] # <<>> /\ n # <<>> /\ ~(key # "json" /\ n = <<Dash>>)
        THEN n ELSE name

\* one round of the loop of fieldName: the name after the tag under key
NameAfter(f, name, key) ==
    LET n == TrimSpace(Split(f.Tag[key], Comma)[1])
    IN  IF f.Tag[key] # <<>> /\ n # <<>> /\ ~(key = "json" /\ n = <<Dash>>)
        THEN n ELSE name

\* tagsToCheck := []string{"json", "bson", "bsoncv"}, the later ones override
fieldName(f) ==
    NameAfter(f, NameAfter(f, NameAfter(f, f.Name, "json"), "bson"), "bsoncv")

(***************************************************************************)
(* Values, as reflection shows them: Kind is String, Int, Slice, Struct,   *)
(* Ptr, Bool or Invalid (what Elem gives for a nil pointer).  A Slice is   *)
(* a []byte or not; a Struct is a time.Time, a type with the method        *)
(* JsonBytes, or another struct with its fields.                           *)
(* What the map holds: the Go value itself (Interface), an ObjectID, a     *)
(* time.Time, nil, a map, or what json.Unmarshal made of a text.           *)
(***************************************************************************)
Invalid == [Kind |-> "Invalid"]

\* fieldValue.Elem()
ValueElem(val) == val.elem

Interface(val) == [is |-> "value", of |-> val]

NilInterface == [is |-> "nil"]

\* data[name] = x
Put(m, name, x) ==
    [n \in DOMAIN m \cup {name} |-> IF n = name THEN x ELSE m[n]]

\* make(map[string]interface{})
EmptyMap == [n \in {} |-> NilInterface]

\* the value of a hexadecimal digit, -1 for another byte
FromHexChar(c) ==
    CASE c \in 48..57 -> c - 48
      [] c \in 97..102 -> c - 97 + 10
      [] c \in 65..70 -> c - 65 + 10
      [] OTHER -> -1

\* primitive.ObjectIDFromHex(str): 24 hexadecimal digits, 12 bytes
ObjectIDFromHex(str) ==
    IF Len(str) = 24 /\ \A i \in 1..24 : FromHexChar(str[i]) >= 0
    THEN [failed |-> FALSE,
          val |-> [is |-> "ObjectID",
                   bytes |-> [i \in 1..12 |-> 16 * FromHexChar(str[2 * i - 1])
                                               + FromHexChar(str[2 * i])]]]
    ELSE [failed |-> TRUE, val |-> NilInterface]

\* time.Parse(layout, str), for layouts of numbers and punctuation: a digit
\* of the layout stands for a digit, Z07:00 at the end also for Z, and any
\* other byte for itself (the ranges of the numbers are not looked at).
\* The time.Time is kept as the text and the layout it was read with.
ZoneSuffix == <<90, 48, 55, 58, 48, 48>>  \* "Z07:00"

EndsWith(str, suffix) ==
    /\ Len(str) >= Len(suffix)
    /\ SubSeq(str, Len(str) - Len(suffix) + 1, Len(str)) = suffix

TimeParse(layout, str) ==
    LET lay == IF EndsWith(layout, ZoneSuffix) /\ EndsWith(str, <<90>>)
               THEN SubSeq(layout, 1, Len(layout) - Len(ZoneSuffix)) \o <<90>>
               ELSE layout
    IN  IF /\ Len(lay) = Len(str)
           /\ Len(str) > 0
           /\ \A i \in 1..Len(str) :
                 IF lay[i] \in Digits THEN str[i] \in Digits ELSE str[i] = lay[i]
        THEN [failed |-> FALSE,
              val |-> [is |-> "Time", how |-> "Parse", layout |-> layout,
                       text |-> str]]
        ELSE [failed |-> TRUE, val |-> NilInterface]

\* bsonConvTag.convertString
convertString(b, str) ==
    CASE b.conv = oid -> ObjectIDFromHex(str)
      [] b.conv = date ->
            TimeParse(IF b.datefmt # <<>> THEN LayoutOf(b.datefmt) ELSE RFC3339Milli,
                      str)
      [] OTHER -> [failed |-> FALSE,
                   val |-> Interface([Kind |-> "String", str |-> str])]

\* Go's / and % on int64: toward zero, the sign of the dividend
Quo(a, b) == IF a >= 0 THEN a \div b ELSE -((-a) \div b)

Rem(a, b) == a - b * Quo(a, b)

\* bsonConvTag.convertToTime
convertToTime(n) ==
    IF n = 0 THEN [is |-> "Time", how |-> "Zero"]
    ELSE [is |-> "Time", how |-> "Unix", sec |-> Quo(n, 1000),
          nsec |-> Rem(n, 1000) * 1000000]

\* bsonConvTag.convertJSONBytes: json.Unmarshal into an interface{}, kept as
\* the text it was made of
convertJSONBytes(bytes) ==
    IF Len(bytes) = 0 THEN [failed |-> FALSE, val |-> NilInterface]
    ELSE IF ValidJson(JsonRead(bytes))
    THEN [failed |-> FALSE, val |-> [is |-> "json", text |-> bytes]]
    ELSE [failed |-> TRUE, val |-> NilInterface]

\* a field is exported if its name begins with an upper-case letter;
\* Value.Interface panics on a value got from one that is not
Exported(f) == f.Name[1] \in 65..90

(***************************************************************************)
(* The body of the loop for the field f, from acc: the map so far, the     *)
(* error returned if any (with the field it is attributed to), and whether *)
(* the call panicked.  nested is StructToMap of the field's value when     *)
(* that is a struct, computed by the caller.                               *)
(***************************************************************************)
Set(acc, name, x) == [acc EXCEPT !.data = Put(@, name, x)]

Fails(acc, name, msg) ==
    [acc EXCEPT !.err = [msg |-> msg, field |-> name]]

PanicsIn(acc) == [acc EXCEPT !.panic = TRUE]

\* data[name] = fieldValue.Interface()
SetInterface(acc, f, name, fv) ==
    IF Exported(f) THEN Set(acc, name, Interface(fv)) ELSE PanicsIn(acc)

CaseOfString(acc, f, name, tag, fv) ==
    IF tag.conv # invalid
    THEN IF fv.str # <<>> \/ ~tag.omitempty
         THEN LET r == convertString(tag, fv.str)
              IN  IF r.failed THEN Fails(acc, name, "failed to convert string")
                  ELSE Set(acc, name, r.val)
         ELSE acc
    ELSE SetInterface(acc, f, name, fv)

CaseOfInt(acc, f, name, tag, fv) ==
    IF tag.conv = date
    THEN IF fv.int # 0 \/ ~tag.omitempty
         THEN Set(acc, name, convertToTime(fv.int))
         ELSE acc
    ELSE SetInterface(acc, f, name, fv)

\* fv := fieldValue.Interface() is an interface that holds a slice, and is
\* never nil
CaseOfSlice(acc, f, name, tag, fv) ==
    IF tag.conv # json THEN acc
    ELSE IF ~Exported(f) THEN PanicsIn(acc)
    ELSE IF tag.omitempty \/ ~fv.bytes THEN acc
    ELSE LET r == convertJSONBytes(fv.elems)
         IN  IF r.failed THEN Fails(acc, name, "failed to convert jsonbytes")
             ELSE Set(acc, name, r.val)

CaseOfStruct(acc, f, name, tag, fv, nested) ==
    IF ~Exported(f) THEN PanicsIn(acc)
    ELSE IF tag.conv = json
    THEN IF fv.type = "jsonWrapper"
         THEN LET r == convertJSONBytes(fv.json)
              IN  IF r.failed THEN Fails(acc, name, "failed to convert jsonbytes")
                  ELSE Set(acc, name, r.val)
         ELSE acc
    ELSE IF fv.type = "time.Time" THEN Set(acc, name, Interface(fv))
    ELSE IF nested.panic THEN PanicsIn(acc)
    ELSE IF nested.err.msg # "" THEN [acc EXCEPT !.err = nested.err]
    ELSE Set(acc, name, [is |-> "map", m |-> nested.data])

CaseOfInvalid(acc, name, tag) ==
    IF ~tag.omitempty THEN Set(acc, name, NilInterface) ELSE acc

NoError == [msg |-> "", field |-> <<>>]

RECURSIVE StructToMapFrom(_, _, _)
\* the loop from field i on
StructToMapFrom(fields, i, acc) ==
    IF i > Len(fields) \/ acc.panic \/ acc.err # NoError THEN acc
    ELSE LET f == fields[i]
             name == fieldName(f)
             tag == parseBsonConvTag(f.Tag.bsoncv)
             fv == IF f.Value.Kind = "Ptr" THEN ValueElem(f.Value) ELSE f.Value
             next ==
                 CASE name = <<Dash>> -> acc
                   [] fv.Kind = "String" -> CaseOfString(acc, f, name, tag, fv)
                   [] fv.Kind = "Int" -> CaseOfInt(acc, f, name, tag, fv)
                   [] fv.Kind = "Slice" -> CaseOfSlice(acc, f, name, tag, fv)
                   [] fv.Kind = "Struct" ->
                         CaseOfStruct(acc, f, name, tag, fv,
                             IF fv.type = "struct"
                             THEN StructToMapFrom(fv.fields, 1,
                                      [data |-> EmptyMap, err |-> NoError,
                                       panic |-> FALSE])
                             ELSE acc)
                   [] fv.Kind = "Invalid" -> CaseOfInvalid(acc, name, tag)
                   [] OTHER -> SetInterface(acc, f, name, fv)
         IN  StructToMapFrom(fields, i + 1, next)

\* StructToMap(v) for v a struct
StructToMapOf(fields) ==
    StructToMapFrom(fields, 1, [data |-> EmptyMap, err |-> NoError, panic |-> FALSE])

(***************************************************************************)
(* The arguments tried.                                                    *)
(***************************************************************************)
Field(name, jsonTag, bsonTag, bsoncvTag, val) ==
    [Name |-> name,
     Tag |-> [json |-> jsonTag, bson |-> bsonTag, bsoncv |-> bsoncvTag],
     Value |-> val]

StringOf(str) == [Kind |-> "String", str |-> str]

IntOf(n) == [Kind |-> "Int", int |-> n]

BytesOf(bytes) == [Kind |-> "Slice", bytes |-> TRUE, elems |-> bytes]

\* type Nested struct { ID string `bsoncv:"_id,$oid"` }
NestedOf(str) ==
    [Kind |-> "Struct", type |-> "struct",
     fields |-> <<Field(<<73, 68>>, <<>>, <<>>, <<95, 105, 100, 44, 36, 111, 105, 100>>, StringOf(str))>>]

PointerTo(val) == [Kind |-> "Ptr", elem |-> val]

FieldNames ==
    {
      <<73, 68>>,  \* "ID"
      <<105, 100>>  \* "id"
    }

JsonTags ==
    {
      <<>>,  \* ""
      <<106>>,  \* "j"
      <<45>>,  \* "-"
      <<32, 106, 32, 44, 111, 109, 105, 116, 101, 109, 112, 116, 121>>,  \* " j ,omitempty"
      <<44, 111, 109, 105, 116, 101, 109, 112, 116, 121>>,  \* ",omitempty"
      <<32, 45, 32>>  \* " - "
    }

BsonTags ==
    {
      <<>>,  \* ""
      <<98>>,  \* "b"
      <<45>>,  \* "-"
      <<44, 111, 109, 105, 116, 101, 109, 112, 116, 121>>  \* ",omitempty"
    }

\* tags under bsoncv that differ in the name
BsoncvNameTags ==
    {
      <<>>,  \* ""
      <<99>>,  \* "c"
      <<45>>,  \* "-"
      <<44, 36, 111, 105, 100>>,  \* ",$oid"
      <<32, 99, 32, 44, 36, 111, 105, 100, 44, 111, 109, 105, 116, 101, 109, 112, 116, 121>>,  \* " c ,$oid,omitempty"
      <<32>>  \* " "
    }

\* tags under bsoncv that differ in the conversion and the flag
BsoncvConvTags ==
    {
      <<>>,  \* ""
      <<44, 36, 111, 105, 100>>,  \* ",$oid"
      <<44, 36, 111, 105, 100, 44, 111, 109, 105, 116, 101, 109, 112, 116, 121>>,  \* ",$oid,omitempty"
      <<44, 36, 100, 97, 116, 101>>,  \* ",$date"
      <<44, 36, 100, 97, 116, 101, 44, 111, 109, 105, 116, 101, 109, 112, 116, 121>>,  \* ",$date,omitempty"
      <<99, 44, 36, 100, 97, 116, 101, 44, 44, 82, 70, 67, 51, 51, 51, 57>>,  \* "c,$date,,RFC3339"
      <<44, 36, 106, 115, 111, 110>>,  \* ",$json"
      <<44, 36, 106, 115, 111, 110, 44, 111, 109, 105, 116, 101, 109, 112, 116, 121>>,  \* ",$json,omitempty"
      <<44, 44, 111, 109, 105, 116, 101, 109, 112, 116, 121>>,  \* ",,omitempty"
      <<44, 36, 100, 97, 116, 101, 44, 44, 48, 49, 47, 48, 50>>,  \* ",$date,,01/02"
      <<44, 36, 98, 97, 100>>  \* ",$bad"
    }

ObjectIdHex == <<48, 49, 50, 51, 52, 53, 54, 55, 56, 57, 97, 98, 99, 100, 101, 102, 48, 49, 50, 51, 52, 53, 54, 55>>  \* "0123456789abcdef01234567"

Strings ==
    {
      <<>>,  \* ""
      <<122, 122>>,  \* "zz"
      <<50, 48, 50, 48, 45, 48, 49, 45, 49, 51, 84, 49, 49, 58, 51, 50, 58, 49, 51, 46, 50, 50, 50, 90>>,  \* "2020-01-13T11:32:13.222Z"
      <<50, 48, 50, 48, 45, 48, 49, 45, 49, 51, 84, 49, 49, 58, 51, 50, 58, 49, 51, 90>>,  \* "2020-01-13T11:32:13Z"
      <<48, 49, 47, 48, 50>>  \* "01/02"
    }

BaseValues ==
    {StringOf(str) : str \in Strings \cup {ObjectIdHex}}
    \cup {IntOf(0), IntOf(1500), IntOf(-1500)}
    \cup {BytesOf(<<>>), BytesOf(<<LBrace, RBrace>>), BytesOf(<<LBrace>>)}
    \cup {[Kind |-> "Slice", bytes |-> FALSE, elems |-> <<97>>]}
    \cup {[Kind |-> "Struct", type |-> "time.Time"]}
    \cup {[Kind |-> "Struct", type |-> "jsonWrapper", json |-> text] :
             text \in {<<LBrace, RBrace>>, <<LBrace>>}}
    \cup {NestedOf(ObjectIdHex), NestedOf(<<122, 122>>)}
    \cup {[Kind |-> "Bool", bool |-> TRUE]}

\* the values with up to d pointers in front, nil pointers among them
RECURSIVE ValuesUpTo(_)
ValuesUpTo(d) ==
    IF d = 0 THEN BaseValues
    ELSE ValuesUpTo(d - 1)
         \cup {PointerTo(val) : val \in ValuesUpTo(d - 1) \cup {Invalid}}

StructOf(fields) == [Kind |-> "Struct", type |-> "struct", fields |-> fields]

\* one field, every combination of tags, a string or a nil pointer
InitNames ==
    \E name \in FieldNames, j \in JsonTags, b \in BsonTags, c \in BsoncvNameTags,
       val \in {StringOf(ObjectIdHex), PointerTo(Invalid)} :
        value = StructOf(<<Field(name, j, b, c, val)>>)

\* one field, every value with every conversion
InitValues ==
    \E name \in FieldNames, c \in BsoncvConvTags, val \in ValuesUpTo(MaxPointers) :
        value = StructOf(<<Field(name, <<>>, <<>>, c, val)>>)

\* two fields: the second after a first that fails, is left out, or has the
\* same name
InitPairs ==
    \E c1 \in {<<44, 36, 111, 105, 100>>, <<Dash>>, <<>>}, c2 \in {<<44, 36, 111, 105, 100>>, <<44, 36, 111, 105, 100, 44, 111, 109, 105, 116, 101, 109, 112, 116, 121>>},
       s1 \in {ObjectIdHex, <<122, 122>>}, val \in {StringOf(<<>>), PointerTo(Invalid)},
       name \in {<<73, 68>>, <<79, 116, 104, 101, 114>>} :
        value = StructOf(<<Field(<<73, 68>>, <<>>, <<>>, c1, StringOf(s1)),
                           Field(name, <<>>, <<>>, c2, val)>>)

\* nil, and a pointer to a struct (which is no struct)
InitOthers ==
    value \in {[Kind |-> "Nil"], PointerTo(StructOf(<<>>)), StructOf(<<>>)}

NoData == [nil |-> TRUE, m |-> EmptyMap]

\* the caller calls StructToMap itself
InitStructToMap ==
    /\ op = "StructToMap"
    /\ InitNames \/ InitValues \/ InitPairs \/ InitOthers
    /\ mpc = "call"
    /\ driver = [err |-> "nil", cur |-> FALSE]
    /\ damage = "none"
    /\ spare = <<>>
    /\ Drawn(<<>>, 0, Len(Samples))
    /\ bsonbytes = <<>>

\* func StructToMap(v interface{}) (map[string]interface{}, error)
StructToMap ==
    /\ op = "StructToMap"
    /\ mpc = "call"
    /\ IF value.Kind = "Nil"
       THEN /\ mpc' = "return"
            /\ data' = NoData
            /\ err' = NoError
       ELSE IF value.Kind # "Struct"
       THEN /\ mpc' = "panic"
            /\ UNCHANGED <<data, err>>
       ELSE \E r \in {StructToMapOf(value.fields)} :
               IF r.panic
               THEN /\ mpc' = "panic"
                    /\ UNCHANGED <<data, err>>
               ELSE /\ mpc' = "return"
                    /\ data' = [nil |-> FALSE, m |-> r.data]
                    /\ err' = r.err
    /\ UNCHANGED <<input, locals, wrapper, value>>

\* StructToMap is not called
IdleMapper ==
    /\ value = [Kind |-> "Nil"]
    /\ mpc = "idle"

Init ==
    /\ \/ (InitToJson \/ InitFindOne \/ InitFind) /\ IdleMapper
       \/ InitStructToMap
    /\ Locals
    /\ spc = "start"
    /\ ret = NoReturn
    /\ frames = 0
    /\ closes = 0
    /\ data = NoData
    /\ err = NoError

Next ==
    \/ Enter
    \/ CaseFloat64
    \/ CaseString
    \/ CaseObject
    \/ CaseArray
    \/ CaseObjectId
    \/ CaseBoolean
    \/ CaseUnixTimeMillis
    \/ CaseNull
    \/ CaseInt32
    \/ CaseTime
    \/ CaseInt64
    \/ CaseDec128
    \/ CaseTerminal
    \/ CaseDefault
    \/ LoopExit
    \/ FindOne
    \/ DecodeBytes
    \/ Decode
    \/ DecodeBytesReturns
    \/ DecodeReturns
    \/ DecoderPanics
    \/ Find
    \/ Aggregate
    \/ CursorClose
    \/ CursorCloseBody
    \/ StructToMap

Spec == Init /\ [][Next]_vars


(***************************************************************************)
(* What the properties are stated with.                                    *)
(***************************************************************************)
\* the argument is the encoding of the tokens, byte for byte
Intact == damage = "none"

\* the argument is a well-formed document (read off the layout)
Document ==
    /\ Intact
    /\ Len(tokens) >= 1
    /\ \A k \in 1..Len(tokens) :
          /\ Supported(tokens[k])
          /\ tokens[k].tag = Boolean => tokens[k].val[1] \in {False, True}
          /\ ref.dep[k] >= 1
    /\ ref.dep[Len(tokens) + 1] = 0

\* no more containers open at once than the stack has slots
WithinDepth == \A k \in 1..(Len(tokens) + 1) : ref.dep[k] <= StackCap

\* the loop has run steps iterations to their end and no other since
Stepped == pc \in {"loop", "return"} /\ steps >= 1

\* the token the last iteration read, when the argument is intact
Current == tokens[steps]

\* what the last iteration wrote: the name part, the value, the comma
NameSeg == SubSeq(jsonbytes, mark.seg + 1, mark.val)

ValueSeg == SubSeq(jsonbytes, mark.val + 1, mark.end)

CommaSeg == SubSeq(jsonbytes, mark.end + 1, Len(jsonbytes))

\* the container token k lies in: 0 for the document itself, else the token
\* that opened it
Encloser(k) ==
    IF ref.dep[k] = 1 THEN 0
    ELSE CHOOSE i \in 1..(k - 1) :
            /\ IsOpen(tokens[i])
            /\ ref.dep[i + 1] = ref.dep[k]
            /\ ref.match[i] >= k
            /\ \A j \in (i + 1)..(k - 1) : ref.dep[j + 1] >= ref.dep[k]

InArray(k) == Encloser(k) # 0 /\ tokens[Encloser(k)].tag = Array

\* the delimiter that closes the container token k lies in
CloserAt(k) == IF InArray(k) THEN RBracket ELSE RBrace

(***************************************************************************)
(* C1.  At every container-open step the number of open frames stays at   *)
(* most 64, and a push that would make a 65th frame is not answered by     *)
(* indexing outside the stack or by aborting.                              *)
(* The code increments stackptr and indexes stack[64]: a run-time panic.   *)
(***************************************************************************)
C1_PushIsBoundsChecked ==
    /\ stackptr + 1 <= StackCap
    /\ ~(pc = "panic" /\ why = "stackindex" /\ stackptr >= 0)

(***************************************************************************)
(* C2.  A call that meets a tag it does not know never returns, as its     *)
(* result, the text written so far.                                        *)
(* The default case returns jsonbytes as it stands.                        *)
(***************************************************************************)
C2_NoPartialResult == ~(pc = "return" /\ why = "default")

(***************************************************************************)
(* C3.  A Decimal128 or legacy date-time tag does not abort the call with  *)
(* a panic.                                                                *)
(* Both cases are panic(jsonbytes).                                        *)
(***************************************************************************)
C3_UnsupportedDoesNotPanic == ~(pc = "panic" /\ why = "value")

(***************************************************************************)
(* C4.  Every byte read lies below the length of the argument, and a       *)
(* truncated argument does not end the call in an out-of-range access.     *)
(* A slice expression reads up to the capacity; an index expression past   *)
(* the length panics.                                                      *)
(***************************************************************************)
C4_ReadsStayInBounds ==
    /\ ~overread
    /\ ~(pc = "panic" /\ why \in {"index", "slice"})

(***************************************************************************)
(* C5.  For a well-formed document within the depth bound the stack        *)
(* mirrors the open containers at every step: the frames are the           *)
(* delimiters of the containers open in the input, innermost last; every   *)
(* container token pushed one frame and wrote its opening delimiter, every *)
(* terminal byte popped one and wrote the delimiter of the container it    *)
(* closes; the cursor stands after the token; the call never panics; and   *)
(* at the end every token was read, no frame is left, and the pops are the *)
(* pushes and one.                                                         *)
(***************************************************************************)
OpensUpTo(k) == Cardinality({i \in 1..k : IsOpen(tokens[i])})

ClosesUpTo(k) == Cardinality({i \in 1..k : IsClose(tokens[i])})

C5_StackMirrorsContainers ==
    Document /\ WithinDepth /\ pc # "call" =>
        /\ pc # "panic"
        /\ steps <= Len(tokens)
        /\ idx = ref.off[steps + 1]
        /\ stackptr + 1 = ref.dep[steps + 1]
        /\ stackptr >= 0 => stack[0] = RBrace
        /\ \A i \in 1..steps :
              IsOpen(tokens[i]) /\ ref.match[i] > steps =>
                  stack[ref.dep[i + 1] - 1] =
                      (IF tokens[i].tag = Array THEN RBracket ELSE RBrace)
        /\ pushes = OpensUpTo(steps)
        /\ pops = ClosesUpTo(steps)
        /\ steps >= 1 /\ IsOpen(Current) =>
              ValueSeg = (IF Current.tag = Array THEN <<LBracket>> ELSE <<LBrace>>)
        /\ steps >= 1 /\ IsClose(Current) => ValueSeg = <<CloserAt(steps)>>
        /\ pc = "return" =>
              /\ why = "end"
              /\ steps = Len(tokens)
              /\ stackptr = -1
              /\ pops = pushes + 1

\* a document with an array inside a document inside an array has been read
\* to its end
C5_Witness ==
    /\ Document
    /\ pc = "return"
    /\ \E i \in 1..Len(tokens) :
          /\ tokens[i].tag = Array
          /\ Encloser(i) # 0
          /\ tokens[Encloser(i)].tag = Object
          /\ InArray(Encloser(i))


\* the text is one JSON value, an object
ValidJsonObject(q) ==
    q.ok /\ q.lex = "none" /\ q.expect = "done" /\ q.events[1] = Event("open", <<LBrace>>)

\* what a parser must read from the JSON of the document
TokenEvents(k) ==
    (IF IsClose(tokens[k]) \/ InArray(k) THEN <<>>
     ELSE <<Event("key", tokens[k].name)>>)
    \o <<CASE tokens[k].tag = Object -> Event("open", <<LBrace>>)
           [] tokens[k].tag = Array -> Event("open", <<LBracket>>)
           [] IsClose(tokens[k]) -> Event("close", <<CloserAt(k)>>)
           [] OTHER -> Event("value", <<>>)>>

DocumentEvents ==
    <<Event("open", <<LBrace>>)>> \o Flatten([k \in 1..Len(tokens) |-> TokenEvents(k)])

(***************************************************************************)
(* C6.  The result for a well-formed document is valid JSON, an object,    *)
(* with the fields of the document in their order and its nesting.         *)
(* The code writes a field name as it is, and a string's control bytes     *)
(* other than newline, tab and carriage return as they are.                *)
(***************************************************************************)
C6_ResultIsTheDocumentAsJson ==
    Document /\ WithinDepth /\ pc = "return" =>
        \E q \in {JsonRead(jsonbytes)} :
            ValidJsonObject(q) /\ q.events = DocumentEvents

(***************************************************************************)
(* C7.  For a well-formed document, a comma is written after a step if and *)
(* only if the step wrote a value (a scalar, or the closing delimiter of a *)
(* nested container) and the next token of the document is not a terminal  *)
(* byte; it is one comma; no comma follows an opening delimiter, precedes  *)
(* a closing delimiter, or follows the closing delimiter of the document.  *)
(***************************************************************************)
C7_CommaBetweenSiblings ==
    Document /\ WithinDepth /\ Stepped =>
        /\ CommaSeg \in {<<>>, <<Comma>>}
        /\ CommaSeg = <<Comma>> <=>
              /\ ~IsOpen(Current)
              /\ steps < Len(tokens)
              /\ ~IsClose(tokens[steps + 1])
        /\ IsOpen(Current) => Last(jsonbytes) \in {LBrace, LBracket}
        /\ IsClose(Current) => jsonbytes[mark.val] # Comma
        /\ steps = Len(tokens) => Last(jsonbytes) = RBrace

\* a comma after the closing delimiter of a nested container, and none after
\* the opening delimiter of a container that has elements
C7_Witness ==
    /\ Document
    /\ Stepped
    /\ IsClose(Current)
    /\ CommaSeg = <<Comma>>
    /\ \E k \in 1..(steps - 2) : IsOpen(tokens[k]) /\ ~IsClose(tokens[k + 1])

(***************************************************************************)
(* C8.  The element read in an array has its name passed over and not      *)
(* written, nor a colon; the element read in a document has its name       *)
(* written between quotes with a colon after it, before the value.  The    *)
(* container that counts is the innermost one open, at any depth and       *)
(* after a nested container has been closed.                               *)
(***************************************************************************)
C8_NamesOnlyInDocuments ==
    Intact /\ Stepped /\ ~IsClose(Current) =>
        /\ NameSeg = IF InArray(steps) THEN <<>>
                     ELSE <<Quote>> \o Current.name \o <<Quote, Colon>>
        /\ mark.seg = Len(jsonbytes) - Len(CommaSeg) - Len(ValueSeg) - Len(NameSeg)
        /\ idx = ref.off[steps + 1]
        /\ ref.off[steps + 1] >= ref.off[steps] + 1 + Len(Current.name) + 1

\* an element of an array that is inside a document, read after a container
\* nested in the array has been closed
C8_Witness ==
    /\ Intact
    /\ Stepped
    /\ ~IsClose(Current)
    /\ InArray(steps)
    /\ Current.name # <<>>
    /\ NameSeg = <<>>
    /\ IsClose(tokens[steps - 1])

\* the inverse of the five escapes, every other byte read as it is; the
\* result keeps ok only if every backslash begins one of the five escapes and
\* no quote stands alone
UnescapeStep(q, c) ==
    CASE ~q.ok -> q
      [] q.esc /\ c \in {Quote, Backslash, LetterN, LetterT, LetterR} ->
            [q EXCEPT !.esc = FALSE, !.out = Append(@, Unescaped(c))]
      [] q.esc -> [q EXCEPT !.ok = FALSE]
      [] c = Backslash -> [q EXCEPT !.esc = TRUE]
      [] c = Quote -> [q EXCEPT !.ok = FALSE]
      [] OTHER -> [q EXCEPT !.out = Append(@, c)]

RECURSIVE UnescapeFrom(_, _, _)
UnescapeFrom(text, q, i) ==
    IF i > Len(text) THEN q ELSE UnescapeFrom(text, UnescapeStep(q, text[i]), i + 1)

Unescape(text) == UnescapeFrom(text, [ok |-> TRUE, esc |-> FALSE, out |-> <<>>], 1)

Specials == {Quote, Backslash, Newline, Tab, CarriageReturn}

(***************************************************************************)
(* C9.  A string element whose length prefix is L has its L-1 bytes        *)
(* written between two quotes, each quote, backslash, newline, tab and     *)
(* carriage return as its two-character escape and every other byte as it  *)
(* is; the cursor ends past the L bytes; reading the escapes back gives    *)
(* the L-1 bytes.                                                          *)
(***************************************************************************)
C9_StringEscapesRoundTrip ==
    Intact /\ Stepped /\ Current.tag = String =>
        \E body \in {SubSeq(ValueSeg, 2, Len(ValueSeg) - 1)} :
            /\ ValueSeg = <<Quote>> \o body \o <<Quote>>
            /\ Len(body) = Len(Current.val)
                  + Cardinality({i \in 1..Len(Current.val) : Current.val[i] \in Specials})
            /\ body = Flatten([i \in 1..Len(Current.val) |->
                  CASE Current.val[i] = Quote -> <<Backslash, Quote>>
                    [] Current.val[i] = Backslash -> <<Backslash, Backslash>>
                    [] Current.val[i] = Newline -> <<Backslash, LetterN>>
                    [] Current.val[i] = Tab -> <<Backslash, LetterT>>
                    [] Current.val[i] = CarriageReturn -> <<Backslash, LetterR>>
                    [] OTHER -> <<Current.val[i]>>])
            /\ Unescape(body) = [ok |-> TRUE, esc |-> FALSE, out |-> Current.val]
            /\ idx = ref.off[steps] + 1 + Len(Current.name) + 1 + 4
                        + (Len(Current.val) + 1)

\* a string with the five special bytes and a plain one
C9_Witness ==
    /\ Intact
    /\ Stepped
    /\ Current.tag = String
    /\ Specials \subseteq {Current.val[i] : i \in 1..Len(Current.val)}
    /\ \E i \in 1..Len(Current.val) : Current.val[i] \notin Specials
    /\ Len(ValueSeg) = 2 + 5 * 2 + 1

\* the two's complement of a little-endian number: every byte complemented,
\* then one added
Negated(bytes) ==
    LET inv == [i \in 1..Len(bytes) |-> 255 - bytes[i]]
        carry == {i \in 1..Len(bytes) : \A j \in 1..i : inv[j] = 255}
    IN  [i \in 1..Len(bytes) |->
            IF i \in carry THEN 0
            ELSE IF i - 1 \in carry \/ i = 1 THEN inv[i] + 1
            ELSE inv[i]]

\* the decimal text of a little-endian two's-complement integer
SignedDecimal(bytes) ==
    IF Last(bytes) >= 128
    THEN <<45>> \o Decimal(Reverse(Negated(bytes)), 256)
    ELSE Decimal(Reverse(bytes), 256)

(***************************************************************************)
(* C10.  The text written for an Int32 or an Int64 element is the decimal  *)
(* text of its payload read as a signed two's-complement integer: a        *)
(* payload with the top bit set is written with a minus sign.              *)
(* The code formats the payload with FormatUint.                           *)
(***************************************************************************)
C10_IntegersAreSigned ==
    Intact /\ Stepped /\ Current.tag \in {Int32, Int64} =>
        ValueSeg = SignedDecimal(Current.val)


\* the instant a signed 64-bit count of milliseconds since the epoch denotes:
\* days since the epoch, second of the day, nanosecond of the second.  The
\* count is split by division, never multiplied; the day count has to fit
\* the checker's integers (counts up to 2^47 in magnitude do).
MillisInstant(bytes) ==
    LET neg == Last(bytes) >= 128
        mag == Reverse(IF neg THEN Negated(bytes) ELSE bytes)
        d1 == DivSmall(mag, 256, 1000)
        d2 == DivSmall(d1.q, 256, 100)
        d3 == DivSmall(d2.q, 256, 864)
        ms == d1.r
        s == d3.r * 100 + d2.r
        days == DigitsValue(d3.q, 256)
        s1 == s + (IF ms > 0 THEN 1 ELSE 0)
    IN  IF ~neg
        THEN [day |-> days, sec |-> s, nsec |-> ms * 1000000]
        ELSE [day |-> -days - (IF s1 > 0 THEN 1 ELSE 0),
              sec |-> IF s1 > 0 THEN 86400 - s1 ELSE 0,
              nsec |-> IF ms > 0 THEN (1000 - ms) * 1000000 ELSE 0]

(***************************************************************************)
(* C11.  The text written for a timestamp element is, between quotes, the  *)
(* instant its payload m denotes, m milliseconds after the Unix epoch, for *)
(* every signed 64-bit m: the epoch itself for m = 0, and never another    *)
(* instant because m * 1000000 wrapped around 64 bits.                     *)
(* The code multiplies in int64, which wraps from m = 9223372036855 on.    *)
(***************************************************************************)
C11_TimestampDenotesTheInstant ==
    Intact /\ Stepped /\ Current.tag = UnixTimeMillis =>
        ValueSeg = <<Quote>> \o FormatRFC3339Nano(MillisInstant(Current.val))
                      \o <<Quote>>


\* the empty document: its length, then the terminal byte
EmptyDocument == <<5, 0, 0, 0, Terminal>>

(***************************************************************************)
(* C12.  The call on the empty document returns the two characters {} :    *)
(* no comma is written at any step, nothing is pushed, and the frame of    *)
(* the document is popped once, which leaves the stack empty.              *)
(***************************************************************************)
C12_EmptyDocument ==
    bsonbytes = EmptyDocument =>
        /\ pc \in {"call", "loop", "return"}
        /\ \A i \in 1..Len(jsonbytes) : jsonbytes[i] # Comma
        /\ pushes = 0
        /\ pops <= 1
        /\ pc = "return" =>
              /\ why = "end"
              /\ jsonbytes = <<LBrace, RBrace>>
              /\ pops = 1
              /\ stackptr = -1
              /\ idx = Len(EmptyDocument)

C12_Witness ==
    /\ bsonbytes = EmptyDocument
    /\ spare = <<>>
    /\ pc = "return"
    /\ jsonbytes = <<LBrace, RBrace>>


(***************************************************************************)
(* C13.  A query for one document that matches none is an empty result and *)
(* no error: FindOne returns a Decoder and a nil error, and neither Decode *)
(* nor DecodeBytes of that Decoder returns an error for it; any other      *)
(* error of the query is returned by FindOne with context added.           *)
(* The methods of the decoder return the error of the single result with   *)
(* a message around it, ErrNoDocuments as any other.                       *)
(***************************************************************************)
C13_NoDocumentIsNoError ==
    op = "FindOne" =>
        /\ ret.kind = "decoder" =>
              ret.err = IF driver.err \in {"nil", "ErrNoDocuments"} THEN Nil
                        ELSE [cause |-> driver.err, msg |-> "", stack |-> TRUE]
        /\ driver.err = "ErrNoDocuments" /\ ret.kind \in {"DecodeBytes", "Decode"} =>
              ret.err.cause = "nil"

(***************************************************************************)
(* C14.  The key of a field in the map: the name in the bsoncv tag, else   *)
(* the name in the bson tag, else the name in the json tag unless it is    *)
(* "-", else the identifier of the field, where the name in a tag is its   *)
(* first comma-separated component trimmed and counts only if not empty.   *)
(* A field whose key comes out as "-" is not in the map.                   *)
(***************************************************************************)
\* the text before the first comma
FirstComponent(tag) ==
    LET stop == {i \in 1..(Len(tag) + 1) :
                    /\ i = Len(tag) + 1 \/ tag[i] = Comma
                    /\ \A j \in 1..(i - 1) : tag[j] # Comma}
    IN  SubSeq(tag, 1, (CHOOSE i \in stop : TRUE) - 1)

RECURSIVE Trimmed(_)
Trimmed(str) ==
    IF str = <<>> THEN str
    ELSE IF Head(str) \in GoSpace THEN Trimmed(Tail(str))
    ELSE IF Last(str) \in GoSpace THEN Trimmed(SubSeq(str, 1, Len(str) - 1))
    ELSE str

NameIn(f, key) == Trimmed(FirstComponent(f.Tag[key]))

KeyOf(f) ==
    IF NameIn(f, "bsoncv") # <<>> THEN NameIn(f, "bsoncv")
    ELSE IF NameIn(f, "bson") # <<>> THEN NameIn(f, "bson")
    ELSE IF NameIn(f, "json") \notin {<<>>, <<Dash>>} THEN NameIn(f, "json")
    ELSE f.Name

\* a value that no flag and no conversion keeps from the map
AlwaysStored(f) ==
    /\ f.Value.Kind = "String"
    /\ f.Value.str = ObjectIdHex
    /\ parseBsonConvTag(f.Tag.bsoncv).conv \in {invalid, oid}

Dereferenced(f) == [f EXCEPT !.Value = f.Value.elem]

C15_PointersAreDereferenced ==
    (op = "StructToMap" /\ mpc # "call" /\ value.Kind = "Struct"
        /\ Len(value.fields) = 1 /\ value.fields[1].Value.Kind = "Ptr") =>
        \E f \in {value.fields[1]} :
            IF f.Value.elem = Invalid
            THEN /\ mpc = "return"
                 /\ err = NoError
                 /\ KeyOf(f) # <<Dash>> =>
                       IF parseBsonConvTag(f.Tag.bsoncv).omitempty
                       THEN data.m = EmptyMap
                       ELSE data.m = Put(EmptyMap, KeyOf(f), NilInterface)
            ELSE \E r \in {StructToMapOf(<<Dereferenced(f)>>)} :
                    IF r.panic THEN mpc = "panic"
                    ELSE /\ mpc = "return"
                         /\ data.m = r.data
                         /\ err = r.err

(***************************************************************************)
(* C16.  Close on the Cursor that Find or Aggregate returned does not call *)
(* itself again: it has one frame on the stack, the process goes on, and   *)
(* when it has returned the cursor of the driver has been closed once.     *)
(* The method calls itself and never the cursor of the driver.             *)
(***************************************************************************)
C16_CloseClosesOnce ==
    op \in {"Find", "Aggregate"} =>
        /\ frames <= 1
        /\ spc # "fatal"
        /\ ret.kind = "Close" => closes = 1

=============================================================================
